---- MODULE Spec2Model ----
(***************************************************************************)
(* Model of amaya: the JSON merge used by the document handlers, the       *)
(* package.json and .vscode/settings.json handlers, and the install and    *)
(* remove runs of a provider (the descriptor-driven DynamicProviderImpl    *)
(* and the built-in BiomeProvider), and the start of the program: the      *)
(* loading of the provider descriptors and their registration.             *)
(***************************************************************************)
EXTENDS Integers, Sequences, FiniteSets, TLC

VARIABLES
    target,     \* merge_json_values: the document being merged into
    source,     \* merge_json_values: the fragment
    merged,     \* results of the successive merges of source into target
    second,     \* merge_json_values: a second fragment
    results,    \* the merges of the two fragments in either order, and of the
                \* first fragment with its keys visited in another order
    fs,         \* the project's files: path -> content
    dirs,       \* the project's directories that exist
    call,       \* the operation being run and its arguments
    pc,         \* the step the operation is at ("idle", a step, "done")
    idx,        \* position in the list the current step loops over
    out,        \* the operation's result
    steps,      \* the steps the operation has started, in order
    baseline,   \* update: the document as read
    working,    \* update: the working copy after the closure ran
    cmds,       \* package-manager commands the operation has run
    pre,        \* files and directories when the operation started
    log,        \* the operations that ran before this one
    external,   \* update: what another process wrote to the handler's file
                \* between the read and the write (NoFile: nothing)
    dir_entries, \* load_all: the entries of the provider directory, as read_dir
                \* yields them
    providers,  \* load_all: the descriptors read so far, then main's list
    registry,   \* AmarisRegistry::providers: name -> provider
    boot,       \* where main is: "idle", "load_all", "register", "ready", "failed"
    at,         \* position in the list main or load_all is looping over
    load_result \* what load_all returned

mergeVars == <<target, source, merged, second, results>>
startVars == <<dir_entries, providers, registry, boot, at, load_result>>
pureVars == <<target, source, merged, second, results, dir_entries, providers, registry, boot, at,
              load_result>>
progVars == <<fs, dirs, call, pc, idx, out, steps, baseline, working, cmds, pre, log,
             external>>
vars == <<target, source, merged, second, results, fs, dirs, call, pc, idx, out, steps, baseline,
          working, cmds, pre, log, external, dir_entries, providers, registry, boot, at,
          load_result>>

(***************************************************************************)
(* Bounds of the model.                                                    *)
(***************************************************************************)
MaxDepth == 2       \* nesting depth of the enumerated JSON documents
MaxMerges == 2      \* how often the same fragment is merged in a row
MaxRuns == 2        \* how many operations are run one after the other

(***************************************************************************)
(* serde_json::Value.  One record shape for every variant: t is the tag,   *)
(* s the text of a String, a the elements of an Array, o the Map of an     *)
(* Object (a function from its keys to values).                            *)
(***************************************************************************)
EmptyMap == [k \in {} |-> 0]

Null == [t |-> "null", s |-> "", a |-> <<>>, o |-> EmptyMap]

Bool(b) == [t |-> "bool", s |-> IF b THEN "true" ELSE "false", a |-> <<>>, o |-> EmptyMap]

Str(text) == [t |-> "string", s |-> text, a |-> <<>>, o |-> EmptyMap]

Arr(elems) == [t |-> "array", s |-> "", a |-> elems, o |-> EmptyMap]

Obj(map) == [t |-> "object", s |-> "", a |-> <<>>, o |-> map]

EmptyObject == Obj(EmptyMap)

is_object(v) == v.t = "object"

Keys(v) == DOMAIN v.o

\* Map::get: the value at key k, or None
Has(v, k) == is_object(v) /\ k \in Keys(v)

\* Map::insert on an object
Insert(v, k, x) == Obj([j \in Keys(v) \cup {k} |-> IF j = k THEN x ELSE v.o[j]])

\* Map::remove on an object
Remove(v, k) == Obj([j \in Keys(v) \ {k} |-> v.o[j]])

(***************************************************************************)
(* Every key of the model, in the order a serde_json Map iterates          *)
(* (BTreeMap: ascending).                                                  *)
(***************************************************************************)
KeyOrder == <<
    "$schema", "**/node_modules", "@biomejs/biome", "a", "b", "biome", "biome:fix",
    "dependencies", "devDependencies", "editor.codeActionsOnSave",
    "editor.defaultFormatter", "editor.fontSize", "extends", "files.exclude",
    "format", "lint", "name", "peerDependencies", "quickfix.biome", "scripts",
    "source.fixAll", "source.organizeImports.biome",
    "typescript.enablePromptUseWorkspaceTsdk", "typescript.tsdk", "ultracite",
    "version" >>

IterKeys(S) == SelectSeq(KeyOrder, LAMBDA k : k \in S)

(***************************************************************************)
(* merge_json_values(target, source): the value left in target.            *)
(***************************************************************************)
RECURSIVE merge_json_values(_, _)
RECURSIVE MergeEntries(_, _, _)

\* Faulty variant, for testing the properties: a key present on both sides is assigned, never merged into
RECURSIVE MergeEntriesShallow(_, _, _)
MergeEntriesShallow(t, s, ks) ==
    IF ks = <<>> THEN t
    ELSE MergeEntriesShallow(Insert(t, Head(ks), s.o[Head(ks)]), s, Tail(ks))

\* Faulty variant, for testing the properties: a differing value that is not merged is kept, not replaced
RECURSIVE MergeEntriesKeep(_, _, _)
MergeEntriesKeep(t, s, ks) ==
    IF ks = <<>> THEN t
    ELSE LET key == Head(ks)
             source_value == s.o[key]
             next ==
                 IF key \in Keys(t)
                 THEN IF is_object(t.o[key]) /\ is_object(source_value)
                      THEN Insert(t, key, merge_json_values(t.o[key], source_value))
                      ELSE t
                 ELSE Insert(t, key, source_value)
         IN  MergeEntriesKeep(next, s, Tail(ks))

\* Faulty variant, for testing the properties: two arrays at a key are merged element by element, the elements of the
\* source that the target lacks being added to the target's
RECURSIVE MergeEntriesUnitingArrays(_, _, _)
MergeEntriesUnitingArrays(t, s, ks) ==
    IF ks = <<>> THEN t
    ELSE LET key == Head(ks)
             source_value == s.o[key]
             next ==
                 IF key \in Keys(t)
                 THEN LET target_value == t.o[key] IN
                      IF is_object(target_value) /\ is_object(source_value)
                      THEN Insert(t, key, merge_json_values(target_value, source_value))
                      ELSE IF target_value.t = "array" /\ source_value.t = "array"
                           THEN Insert(t, key,
                                       Arr(target_value.a \o
                                           SelectSeq(source_value.a,
                                                     LAMBDA x : \A i \in 1..Len(target_value.a) :
                                                                    target_value.a[i] # x)))
                      ELSE IF target_value # source_value
                           THEN Insert(t, key, source_value)
                           ELSE t
                 ELSE Insert(t, key, source_value)
         IN  MergeEntriesUnitingArrays(next, s, Tail(ks))

\* the for loop over source_map, with ks the keys still to visit
MergeEntries(t, s, ks) ==
    IF ks = <<>> THEN t
    ELSE LET key == Head(ks)
             source_value == s.o[key]
             next ==
                 IF key \in Keys(t)
                 THEN LET target_value == t.o[key] IN
                      IF is_object(target_value) /\ is_object(source_value)
                      THEN Insert(t, key, merge_json_values(target_value, source_value))
                      ELSE IF target_value # source_value
                           THEN Insert(t, key, source_value)
                           ELSE t
                 ELSE Insert(t, key, source_value)
         IN  MergeEntries(next, s, Tail(ks))

\* Faulty variant, for testing the properties: two arrays are concatenated instead of the source replacing the target
merge_extending_arrays(t, s) ==
    IF is_object(t) /\ is_object(s)
    THEN MergeEntries(t, s, IterKeys(Keys(s)))
    ELSE IF t.t = "array" /\ s.t = "array" THEN Arr(t.a \o s.a) ELSE s

\* Faulty variant, for testing the properties: the source replaces the target, objects too
merge_replacing(t, s) == s

merge_json_values(t, s) ==
    IF is_object(t) /\ is_object(s)
    THEN MergeEntries(t, s, IterKeys(Keys(s)))
    ELSE s

(***************************************************************************)
(* The JSON documents the merge is tried on: strings, arrays and objects   *)
(* nested to MaxDepth.                                                     *)
(***************************************************************************)
MergeKeys == {"a", "b"}

Leaves == {Str("x"), Str("y"), Arr(<<"x">>), Arr(<<"y", "x">>)}

ObjectsOver(vals) ==
    {Obj(m) : m \in UNION {[S -> vals] : S \in SUBSET MergeKeys}}

RECURSIVE JsonValues(_)
JsonValues(depth) ==
    IF depth = 0 THEN Leaves
    ELSE Leaves \cup ObjectsOver(JsonValues(depth - 1))


(***************************************************************************)
(* The documents the merges of two fragments are tried on: two leaves, and *)
(* objects over the two keys nested to CommuteDepth.                       *)
(***************************************************************************)
CommuteDepth == 2

CommuteLeaves == {Str("x"), Arr(<<"y", "x">>)}

RECURSIVE CommuteValues(_)
CommuteValues(depth) ==
    IF depth = 0 THEN CommuteLeaves
    ELSE CommuteLeaves
             \cup {Obj(m) : m \in UNION {[S -> CommuteValues(depth - 1)] :
                                              S \in SUBSET MergeKeys}}

\* the second fragments: every value one level less deep, and objects that
\* hold one object under one key
SecondFragments ==
    CommuteValues(CommuteDepth - 1)
        \cup {Obj(k :> Obj(j :> Str("y"))) : k \in MergeKeys, j \in MergeKeys}

\* the orders in which a Map's keys could be visited
RECURSIVE Orders(_)
Orders(S) ==
    IF S = {} THEN {<<>>}
    ELSE UNION {{<<k>> \o rest : rest \in Orders(S \ {k})} : k \in S}
(***************************************************************************)
(* Results: Ok(value), Err(ConfigError variant), or a panic (an unwrap on  *)
(* None, an index into a value that has no such entry).                    *)
(***************************************************************************)
Pending == [kind |-> "none", err |-> "", val |-> Null]

Ok == [kind |-> "ok", err |-> "", val |-> Null]

OkVal(v) == [kind |-> "ok", err |-> "", val |-> v]

Err(e) == [kind |-> "err", err |-> e, val |-> Null]

Panic == [kind |-> "panic", err |-> "", val |-> Null]

\* the value a panicking expression leaves: nothing after it runs
Poison == [t |-> "panic", s |-> "", a |-> <<>>, o |-> EmptyMap]

(***************************************************************************)
(* File contents.  A file holds JSON text as serde_json prints it          *)
(* (to_string_pretty, or to_string: the same document in another layout),  *)
(* or text that is not JSON; a path may hold no file.                      *)
(***************************************************************************)
NoFile == [kind |-> "none", doc |-> Null]

to_string_pretty(v) == [kind |-> "pretty", doc |-> v]

to_string(v) == [kind |-> "compact", doc |-> v]

Text(s) == [kind |-> "text", doc |-> Str(s)]

\* serde_json::from_str
from_str(c) ==
    IF c.kind \in {"pretty", "compact"} THEN OkVal(c.doc) ELSE Err("ValidationError")

PackageJsonPath == "package.json"

SettingsPath == ".vscode/settings.json"

Paths == {PackageJsonPath, SettingsPath, "biome.json", "settings.json",
          "config/tool.json", "tool.json"}

\* Path::parent ("" for a bare file name)
Parent(p) ==
    CASE p = SettingsPath -> ".vscode"
      [] p = "config/tool.json" -> "config"
      [] OTHER -> ""

Exists(w, p) == w.fs[p].kind # "none"

\* what can go wrong in the operating system during one step: nothing, or
\* the named call fails when the step reaches it
IoFaults == {"none", "open", "read", "mkdir", "write"}

(***************************************************************************)
(* Value's IndexMut (value[key] in a place that is written): Null becomes  *)
(* an empty object, an object gets the key (Null if it was absent), any    *)
(* other value panics.                                                      *)
(***************************************************************************)
IndexMut(v, k) ==
    IF v.t = "null" THEN Null
    ELSE IF is_object(v) THEN (IF k \in Keys(v) THEN v.o[k] ELSE Null)
    ELSE Poison

\* value[key] = x
SetIn(v, k, x) ==
    IF x = Poison THEN Poison
    ELSE IF v.t = "null" THEN Insert(EmptyObject, k, x)
    ELSE IF is_object(v) THEN Insert(v, k, x)
    ELSE Poison

\* value["scripts"][name] = x
SetScript(v, name, x) == SetIn(v, "scripts", SetIn(IndexMut(v, "scripts"), name, x))

\* value["scripts"].as_object_mut().unwrap().remove(name)
RemoveScript(v, name) ==
    LET scripts == IndexMut(v, "scripts") IN
    IF is_object(scripts) THEN SetIn(v, "scripts", Remove(scripts, name)) ELSE Poison

\* Faulty variant, for testing the properties: the loop of write_scripts leaves a script that is there as it is
RECURSIVE write_scripts_keeping(_, _, _)
write_scripts_keeping(doc, scripts, i) ==
    IF i > Len(scripts) \/ doc = Poison THEN doc
    ELSE write_scripts_keeping(
             IF Has(IndexMut(doc, "scripts"), scripts[i].name) THEN doc
             ELSE SetScript(doc, scripts[i].name, Str(scripts[i].script)),
             scripts, i + 1)

\* the loop of write_scripts over the entries from position i on
RECURSIVE write_scripts_doc(_, _, _)
write_scripts_doc(doc, scripts, i) ==
    IF i > Len(scripts) \/ doc = Poison THEN doc
    ELSE write_scripts_doc(SetScript(doc, scripts[i].name, Str(scripts[i].script)),
                           scripts, i + 1)

\* Faulty variant, for testing the properties: the loop of remove_scripts leaves the last entry in place
RECURSIVE remove_scripts_but_last(_, _, _)
remove_scripts_but_last(doc, scripts, i) ==
    IF i >= Len(scripts) \/ doc = Poison THEN doc
    ELSE remove_scripts_but_last(RemoveScript(doc, scripts[i].name), scripts, i + 1)

\* the loop of remove_scripts over the entries from position i on
RECURSIVE remove_scripts_doc(_, _, _)
remove_scripts_doc(doc, scripts, i) ==
    IF i > Len(scripts) \/ doc = Poison THEN doc
    ELSE remove_scripts_doc(RemoveScript(doc, scripts[i].name), scripts, i + 1)

\* Value::as_str().unwrap_or_default()
as_str_or_default(v) == IF v.t = "string" THEN v.s ELSE ""

\* Map's IndexMut (map[key] = x): the entry must exist, or it panics
MapSet(m, k, x) == IF k \in Keys(m) THEN Insert(m, k, x) ELSE Poison

\* Faulty variant, for testing the properties: add_script appends to a script that is there whatever the flag says
add_script_always_appending(package_json, name, content, append) ==
    LET ensured == IF ~Has(package_json, "scripts")
                   THEN SetIn(package_json, "scripts", EmptyObject)
                   ELSE package_json
        scripts == IF ensured = Poison THEN Poison ELSE IndexMut(ensured, "scripts")
    IN  IF ~is_object(scripts) THEN Poison
        ELSE IF name \in Keys(scripts)
             THEN SetIn(ensured, "scripts",
                        MapSet(scripts, name,
                               Str(as_str_or_default(scripts.o[name]) \o " && " \o content)))
        ELSE SetIn(ensured, "scripts", MapSet(scripts, name, Str(content)))

\* the closure add_script passes to update
add_script_closure(package_json, name, content, append) ==
    LET ensured == IF ~Has(package_json, "scripts")
                   THEN SetIn(package_json, "scripts", EmptyObject)
                   ELSE package_json
        scripts == IF ensured = Poison THEN Poison ELSE IndexMut(ensured, "scripts")
    IN  IF ~is_object(scripts) THEN Poison
        ELSE IF name \in Keys(scripts) /\ append
             THEN SetIn(ensured, "scripts",
                        MapSet(scripts, name,
                               Str(as_str_or_default(scripts.o[name]) \o " && " \o content)))
        ELSE IF name \in Keys(scripts) /\ ~append
             THEN SetIn(ensured, "scripts", MapSet(scripts, name, Str(content)))
        ELSE SetIn(ensured, "scripts", MapSet(scripts, name, Str(content)))

\* the closure remove_script passes to update
remove_script_closure(package_json, name) ==
    IF Has(package_json, "scripts") /\ is_object(package_json.o["scripts"])
    THEN SetIn(package_json, "scripts", Remove(package_json.o["scripts"], name))
    ELSE package_json

(***************************************************************************)
(* The closures update is tried with, besides add_script's: set a key,     *)
(* remove a key, replace the whole document by a string.                   *)
(***************************************************************************)
MutateKeys == {"name", "editor.fontSize"}

Mutations ==
    [f : {"set", "remove"}, key : MutateKeys]
        \cup [f : {"replace"}, key : {""}]

NoMutation == [f |-> "none", key |-> ""]

Mutate(m, doc) ==
    CASE m.f = "set" -> SetIn(doc, m.key, Str("changed"))
      [] m.f = "remove" -> IF is_object(doc) THEN Remove(doc, m.key) ELSE doc
      [] m.f = "replace" -> Str("replaced")
      [] OTHER -> doc

\* Faulty variant, for testing the properties: update saves the working copy as it is
RawOverwrite(original, settings) == settings

\* update: what is saved, from the document read and the working copy
UpdatedDocument(original, settings) == merge_json_values(original, settings)

(***************************************************************************)
(* Provider data.                                                          *)
(***************************************************************************)
ConfigEntry(location, name, from) ==
    [file_location |-> location, file_name |-> name, source_from |-> from]

ScriptEntry(name, script) == [name |-> name, script |-> script]

\* BiomeProvider::get_vscode_configuration, and the settings.json template
\* create_initial_config writes
vscode_settings ==
    Obj(("typescript.tsdk" :> Str("node_modules/typescript/lib"))
        @@ ("typescript.enablePromptUseWorkspaceTsdk" :> Bool(TRUE))
        @@ ("editor.defaultFormatter" :> Str("biomejs.biome"))
        @@ ("editor.codeActionsOnSave" :>
                Obj(("quickfix.biome" :> Str("explicit"))
                    @@ ("source.organizeImports.biome" :> Str("explicit"))))
        @@ ("files.exclude" :> Obj("**/node_modules" :> Bool(TRUE))))

\* BiomeProvider::get_configuration and the biome.json template (its first
\* two keys stand for the whole table, which nothing in the program reads)
biome_config ==
    Obj(("$schema" :> Str("https://biomejs.dev/schemas/1.9.4/schema.json"))
        @@ ("extends" :> Arr(<<"ultracite">>)))

\* the descriptor create_initial_config writes to providers/biome.json
biome_provider ==
    [kind |-> "dynamic", name |-> "biome", description |-> "Biome",
     package_manager |-> "bun",
     packages |-> <<"@biomejs/biome">>,
     configuration |-> << ConfigEntry("biome.json", "biome.json", "biome.json"),
                          ConfigEntry(SettingsPath, "settings.json", "settings.json") >>,
     scripts |-> << ScriptEntry("format", "biome format ."),
                    ScriptEntry("lint", "biome lint .") >>,
     settings |-> EmptyObject]

\* a descriptor with one package and one script and no configuration file
fmt_provider ==
    [kind |-> "dynamic", name |-> "fmt", description |-> "Formatter",
     package_manager |-> "npm",
     packages |-> <<"fmt-tool">>,
     configuration |-> <<>>,
     scripts |-> << ScriptEntry("format", "fmt-tool .") >>,
     settings |-> EmptyObject]

\* a descriptor that names a package twice and a script twice, and places its
\* configuration file in a directory
lint_provider ==
    [kind |-> "dynamic", name |-> "lint", description |-> "Linter",
     package_manager |-> "npm",
     packages |-> <<"eslint", "eslint">>,
     configuration |-> << ConfigEntry("config/tool.json", "tool.json", "tool.json") >>,
     scripts |-> << ScriptEntry("lint", "eslint ."),
                    ScriptEntry("lint", "eslint . --fix") >>,
     settings |-> EmptyObject]

\* the built-in BiomeProvider
BiomeProvider ==
    [kind |-> "builtin", name |-> "biome", description |-> "Biome",
     package_manager |-> "bun",
     packages |-> <<"@biomejs/biome", "ultracite">>,
     configuration |-> << ConfigEntry("biome.json", "biome.json", "get_configuration") >>,
     scripts |-> << ScriptEntry("biome", "biome check ."),
                    ScriptEntry("biome:fix", "biome check . --write") >>,
     settings |-> vscode_settings]

ProviderIds == {"dyn:biome", "dyn:fmt", "dyn:lint", "builtin:biome"}

Descriptor(id) ==
    CASE id = "dyn:biome" -> biome_provider
      [] id = "dyn:fmt" -> fmt_provider
      [] id = "dyn:lint" -> lint_provider
      [] OTHER -> BiomeProvider

\* ~/.amaya/configs/<provider name>/<source_from>, as create_initial_config
\* fills it; the lint provider's template is a file its author added
Template(name, from) ==
    CASE name = "biome" /\ from = "biome.json" -> to_string(biome_config)
      [] name = "biome" /\ from = "settings.json" -> to_string(vscode_settings)
      [] name = "lint" /\ from = "tool.json" -> Text("tool-config")
      [] OTHER -> NoFile

\* the document a provider's settings come from: the template of its
\* settings.json entry (descriptor-driven) or its built-in table
SettingsFragment(id) ==
    LET p == Descriptor(id) IN
    IF p.kind = "builtin" THEN p.settings
    ELSE IF \E i \in 1..Len(p.configuration) :
                /\ p.configuration[i].file_name = "settings.json"
                /\ Template(p.name, p.configuration[i].source_from).kind = "compact"
         THEN LET i == CHOOSE i \in 1..Len(p.configuration) :
                          p.configuration[i].file_name = "settings.json"
              IN  Template(p.name, p.configuration[i].source_from).doc
         ELSE EmptyObject

\* the steps of DynamicProviderImpl::install / remove and of
\* BiomeProvider::install / remove, in the order of the code
StepsOf(op, id) ==
    IF Descriptor(id).kind = "dynamic"
    THEN IF op = "install"
         THEN <<"install_packages", "write_configs", "write_scripts">>
         ELSE <<"remove_packages", "remove_configs", "remove_scripts">>
    ELSE IF op = "install"
         THEN <<"install_packages", "write_configuration", "update_vscode_settings",
                "update_package_json">>
         ELSE <<"remove_packages", "remove_configuration", "remove_vscode_settings",
                "remove_package_json">>

(***************************************************************************)
(* The handlers.  w is the world a handler runs in, [fs, dirs]; io is the  *)
(* operating-system fault of the step; the value is [out, w]: the result   *)
(* and the world left behind.                                              *)
(***************************************************************************)
Return(result, w) == [out |-> result, w |-> w]

WithFile(w, p, content) == [w EXCEPT !.fs[p] = content]

WithDir(w, d) == IF d = "" THEN w ELSE [w EXCEPT !.dirs = @ \cup {d}]

\* create_dir_all fails: only where there is a directory to create
MkdirFails(w, d, io) == d # "" /\ d \notin w.dirs /\ io = "mkdir"

\* File::open, read_to_string (its error is dropped: the text stays empty)
\* and from_str, the tail of both read functions
ReadExisting(w, p, io) ==
    IF io = "open" THEN Err("FileWriteError")
    ELSE IF io = "read" THEN Err("ValidationError")
    ELSE from_str(w.fs[p])

\* Faulty variant, for testing the properties: read opens the file without looking whether it exists
read_without_exists_check(w, io) ==
    IF ~Exists(w, PackageJsonPath) \/ io = "open"
    THEN Return(Err("FileWriteError"), w)
    ELSE Return(ReadExisting(w, PackageJsonPath, io), w)

\* AmarisPackageJsonHandler::read (AmarisConfigurator::read_package_json)
PackageJsonRead(w, io) ==
    IF ~Exists(w, PackageJsonPath)
    THEN Return(OkVal(EmptyObject), w)
    ELSE Return(ReadExisting(w, PackageJsonPath, io), w)

\* AmarisPackageJsonHandler::write (AmarisConfigurator::write_package_json)
PackageJsonWrite(w, package_json, io) ==
    IF io = "write" THEN Return(Err("FileWriteError"), w)
    ELSE Return(Ok, WithFile(w, PackageJsonPath, to_string_pretty(package_json)))

\* AmarisVisualStudioCodeHandler::read (AmarisConfigurator::read_vscode_settings)
VsCodeRead(w, io) ==
    IF ~Exists(w, SettingsPath)
    THEN IF MkdirFails(w, Parent(SettingsPath), io)
         THEN Return(Err("FileWriteError"), w)
         ELSE Return(OkVal(EmptyObject), WithDir(w, Parent(SettingsPath)))
    ELSE Return(ReadExisting(w, SettingsPath, io), w)

\* AmarisVisualStudioCodeHandler::write (AmarisConfigurator::write_vscode_settings)
VsCodeWrite(w, settings, io) ==
    IF MkdirFails(w, Parent(SettingsPath), io) THEN Return(Err("FileWriteError"), w)
    ELSE IF io = "write"
         THEN Return(Err("FileWriteError"), WithDir(w, Parent(SettingsPath)))
    ELSE Return(Ok, WithFile(WithDir(w, Parent(SettingsPath)), SettingsPath,
                             to_string_pretty(settings)))

\* the file of a document handler
HandlerPath(handler) == IF handler = "package_json" THEN PackageJsonPath ELSE SettingsPath

HandlerRead(handler, w, io) ==
    IF handler = "package_json" THEN PackageJsonRead(w, io) ELSE VsCodeRead(w, io)

HandlerWrite(handler, w, doc, io) ==
    IF handler = "package_json" THEN PackageJsonWrite(w, doc, io)
    ELSE VsCodeWrite(w, doc, io)

\* AmarisFileHandler::load_file
load_file(content, io) ==
    IF content.kind = "none" \/ io \in {"open", "read"}
    THEN Err("FileReadError") ELSE Ok

\* AmarisFileHandler::write_file
write_file(w, path, content, io) ==
    IF MkdirFails(w, Parent(path), io)
    THEN Return(Err("FileWriteError"), w)
    ELSE IF io = "write"
         THEN Return(Err("FileWriteError"), WithDir(w, Parent(path)))
    ELSE Return(Ok, WithFile(WithDir(w, Parent(path)), path, content))

\* AmarisFileHandler::remove_file (AmarisConfigurator::remove_file)
remove_file(w, path, io) ==
    IF ~Exists(w, path) THEN Return(Ok, w)
    ELSE IF io = "write" THEN Return(Err("FileWriteError"), w)
    ELSE Return(Ok, WithFile(w, path, NoFile))

\* AmarisConfigurator::write_file
ConfiguratorWriteFile(w, path, content, io) ==
    IF Exists(w, path) THEN Return(Err("AlreadyExists"), w)
    ELSE IF io = "write" THEN Return(Err("FileWriteError"), w)
    ELSE Return(Ok, WithFile(w, path, content))

\* one pass of write_configs' loop
write_config(w, name, config, io) ==
    LET content == Template(name, config.source_from)
        loaded == load_file(content, io)
    IN  IF loaded.kind # "ok" THEN Return(loaded, w)
        ELSE write_file(w, config.file_location, content, io)

\* one pass of remove_configs' loop
remove_config(w, config, io) ==
    IF config.file_name = "settings.json"
    THEN VsCodeWrite(w, EmptyObject, io)
    ELSE remove_file(w, config.file_name, io)

\* a read, a change of the document that may panic, and a write
ReadChangeWrite(handler, w, io, change(_)) ==
    LET got == HandlerRead(handler, w, io) IN
    IF got.out.kind # "ok" THEN got
    ELSE LET updated == change(got.out.val) IN
         IF updated = Poison THEN Return(Panic, got.w)
         ELSE HandlerWrite(handler, got.w, updated, io)

\* AmarisPackageJsonHandler::write_scripts (BiomeProvider::update_package_json)
write_scripts(w, scripts, io) ==
    ReadChangeWrite("package_json", w, io,
                    LAMBDA doc : write_scripts_doc(doc, scripts, 1))

\* AmarisPackageJsonHandler::remove_scripts (BiomeProvider::remove_package_json)
remove_scripts(w, scripts, io) ==
    ReadChangeWrite("package_json", w, io,
                    LAMBDA doc : remove_scripts_doc(doc, scripts, 1))

\* the loop of update_vscode_settings: updated_settings[key] = value
RECURSIVE AssignKeys(_, _, _)
AssignKeys(doc, settings, ks) ==
    IF ks = <<>> \/ doc = Poison THEN doc
    ELSE AssignKeys(SetIn(doc, Head(ks), settings.o[Head(ks)]), settings, Tail(ks))

\* the loop of remove_vscode_settings: as_object_mut().unwrap().remove(key)
RECURSIVE RemoveKeys(_, _)
RemoveKeys(doc, ks) ==
    IF ks = <<>> \/ doc = Poison THEN doc
    ELSE RemoveKeys(IF is_object(doc) THEN Remove(doc, Head(ks)) ELSE Poison, Tail(ks))

\* BiomeProvider::update_vscode_settings
update_vscode_settings(w, settings, io) ==
    ReadChangeWrite("vscode", w, io,
                    LAMBDA doc : AssignKeys(doc, settings, IterKeys(Keys(settings))))

\* BiomeProvider::remove_vscode_settings
remove_vscode_settings(w, settings, io) ==
    ReadChangeWrite("vscode", w, io,
                    LAMBDA doc : RemoveKeys(doc, IterKeys(Keys(settings))))


\* AmarisConfigurator::get_package_dependencies: the names declared in the
\* three dependency tables of the manifest
DependencyTables == <<"dependencies", "devDependencies", "peerDependencies">>

get_package_dependencies(package_json) ==
    UNION { IF Has(package_json, DependencyTables[i])
               /\ is_object(package_json.o[DependencyTables[i]])
            THEN Keys(package_json.o[DependencyTables[i]])
            ELSE {} : i \in 1..Len(DependencyTables) }

\* AmarisConfigurator::check_if_dependency_exists
check_if_dependency_exists(package_json, names) ==
    \A i \in 1..Len(names) : names[i] \in get_package_dependencies(package_json)

\* the providers check_prerequisites is modelled for: those above and the
\* built-in PrettierEslintProvider, which also looks for Biome's packages
PrettierEslintProvider == "builtin:prettier_eslint"

PrerequisiteProviders == ProviderIds \cup {PrettierEslintProvider}

PackageManagerOf(id) ==
    IF id = PrettierEslintProvider THEN "bun" ELSE Descriptor(id).package_manager

\* Faulty variant, for testing the properties: check_prerequisites does not look for the manifest
check_prerequisites_without_manifest(w, id, found, io) ==
    IF ~found THEN Err("MissingPrerequisite")
    ELSE IF id = PrettierEslintProvider
         THEN LET got == PackageJsonRead(w, io) IN
              IF got.out.kind # "ok" THEN got.out
              ELSE IF check_if_dependency_exists(got.out.val, BiomeProvider.packages)
                   THEN Err("ConflictError")
              ELSE Ok
    ELSE Ok

\* check_prerequisites of DynamicProviderImpl, BiomeProvider and
\* PrettierEslintProvider; found: which() finds the package manager
check_prerequisites(w, id, found, io) ==
    IF ~found THEN Err("MissingPrerequisite")
    ELSE IF ~Exists(w, PackageJsonPath) THEN Err("MissingPrerequisite")
    ELSE IF id = PrettierEslintProvider
         THEN LET got == PackageJsonRead(w, io) IN
              IF got.out.kind # "ok" THEN got.out
              ELSE IF check_if_dependency_exists(got.out.val, BiomeProvider.packages)
                   THEN Err("ConflictError")
              ELSE Ok
    ELSE Ok

(***************************************************************************)
(* The start of the program: DynamicProvider::load_all reads the provider  *)
(* directory, main registers what it returned.                             *)
(***************************************************************************)
MaxEntries == 3     \* how many entries the provider directory has at most

\* a directory entry: a regular file or a directory, with its extension and
\* what reading it gives (a descriptor, text that is no descriptor, or an
\* error of the read)
Nothing == [kind |-> "none"]

File(ext, content) == [is_file |-> TRUE, ext |-> ext, content |-> content]

Dir(ext) ==
    [is_file |-> FALSE, ext |-> ext,
     content |-> [kind |-> "directory", provider |-> Nothing]]

Descriptors(d) == [kind |-> "descriptor", provider |-> d]

Invalid == [kind |-> "invalid", provider |-> Nothing]

Unreadable == [kind |-> "unreadable", provider |-> Nothing]

\* a second descriptor named biome, as one file next to the first would hold
biome_provider_npm ==
    [biome_provider EXCEPT !.package_manager = "npm", !.description = "Biome (npm)"]

DirEntries ==
    { File("json", Descriptors(biome_provider)),
      File("json", Descriptors(biome_provider_npm)),
      File("json", Descriptors(fmt_provider)),
      File("json", Invalid),
      File("json", Unreadable),
      File("txt", Invalid),
      Dir("json") }

RECURSIVE SeqsUpTo(_, _)
SeqsUpTo(S, n) ==
    IF n = 0 THEN {<<>>}
    ELSE LET shorter == SeqsUpTo(S, n - 1) IN
         shorter \cup {Append(q, x) : q \in shorter, x \in S}

\* path.is_file() && path.extension() == "json"
IsDescriptorFile(entry) == entry.is_file /\ entry.ext = "json"

\* DynamicProviderImpl built by register
DynamicProviderImpl(provider) ==
    [name |-> provider.name, description |-> provider.description,
     provider |-> provider]

EmptyRegistry == [n \in {} |-> 0]

\* Faulty variant, for testing the properties: register keeps the provider a name already has
register_keeping_first(reg, provider) ==
    IF provider.name \in DOMAIN reg THEN reg
    ELSE [n \in DOMAIN reg \cup {provider.name} |->
             IF n = provider.name THEN DynamicProviderImpl(provider) ELSE reg[n]]

\* AmarisRegistry::register: HashMap::insert under the provider's name
register(reg, provider) ==
    [n \in DOMAIN reg \cup {provider.name} |->
        IF n = provider.name THEN DynamicProviderImpl(provider) ELSE reg[n]]

None == [name |-> "", description |-> "", provider |-> Nothing]

\* AmarisRegistry::get_provider
get_provider(reg, name) == IF name \in DOMAIN reg THEN reg[name] ELSE None

\* AmarisRegistry::available_configs: one (name, description) per value of
\* the map, in no particular order
available_configs(reg) == {<<n, reg[n].name, reg[n].description>> : n \in DOMAIN reg}

StartIdle ==
    /\ dir_entries = <<>>
    /\ providers = <<>>
    /\ registry = EmptyRegistry
    /\ boot = "idle"
    /\ at = 1
    /\ load_result = Pending

\* Faulty variant, for testing the properties: load_all passes over a descriptor file it cannot read or parse
LoadEntrySkippingBad ==
    /\ boot = "load_all"
    /\ IF at > Len(dir_entries)
       THEN /\ boot' = "register"
            /\ load_result' = Ok
            /\ at' = 1
            /\ UNCHANGED providers
       ELSE /\ providers' = IF IsDescriptorFile(dir_entries[at])
                               /\ dir_entries[at].content.kind = "descriptor"
                            THEN Append(providers, dir_entries[at].content.provider)
                            ELSE providers
            /\ at' = at + 1
            /\ UNCHANGED <<boot, load_result>>
    /\ UNCHANGED <<dir_entries, registry>>
    /\ UNCHANGED mergeVars
    /\ UNCHANGED progVars

\* load_all: one pass of the loop over the directory, or its return
LoadEntry ==
    /\ boot = "load_all"
    /\ IF at > Len(dir_entries)
       THEN /\ boot' = "register"
            /\ load_result' = Ok
            /\ at' = 1
            /\ UNCHANGED providers
       ELSE IF IsDescriptorFile(dir_entries[at])
            THEN IF dir_entries[at].content.kind = "descriptor"
                 THEN /\ providers' = Append(providers, dir_entries[at].content.provider)
                      /\ at' = at + 1
                      /\ UNCHANGED <<boot, load_result>>
                 ELSE /\ boot' = "failed"
                      /\ load_result' = Err("FileWriteError")
                      /\ providers' = <<>>
                      /\ UNCHANGED at
            ELSE /\ at' = at + 1
                 /\ UNCHANGED <<providers, boot, load_result>>
    /\ UNCHANGED <<dir_entries, registry>>
    /\ UNCHANGED mergeVars
    /\ UNCHANGED progVars

\* main: one pass of the loop that registers the providers load_all returned
Register ==
    /\ boot = "register"
    /\ IF at > Len(providers)
       THEN boot' = "ready" /\ UNCHANGED <<registry, at>>
       ELSE /\ registry' = register(registry, providers[at])
            /\ at' = at + 1
            /\ UNCHANGED boot
    /\ UNCHANGED <<dir_entries, providers, load_result>>
    /\ UNCHANGED mergeVars
    /\ UNCHANGED progVars
(***************************************************************************)
(* The program as a state machine.  One operation runs at a time, step by  *)
(* step; MaxRuns operations run one after the other on the same project.   *)
(***************************************************************************)
W == [fs |-> fs, dirs |-> dirs]

Leave(w) == fs' = w.fs /\ dirs' = w.dirs

Call(op, prov, handler, name, content, append, mutate) ==
    [op |-> op, prov |-> prov, handler |-> handler, name |-> name,
     content |-> content, append |-> append, mutate |-> mutate]

NoCall == Call("none", "", "", "", "", FALSE, NoMutation)

Summary == [call |-> call, out |-> out, pre |-> pre]

Runs == Len(log) + (IF pc = "idle" THEN 0 ELSE 1)

\* the project before the first operation: a manifest (absent, empty, with a
\* lint script, with a scripts entry that is no table, with Biome's first
\* package declared, or not JSON), editor
\* settings (absent, empty, the user's own, or the user's own under keys a
\* provider also sets) and a biome.json and a tool.json at the project root
\* (both absent, or both the user's own)
InitialManifests ==
    { NoFile,
      to_string_pretty(EmptyObject),
      to_string(Obj(("name" :> Str("app"))
                    @@ ("scripts" :> Obj("lint" :> Str("old-lint"))))),
      to_string_pretty(Obj(("name" :> Str("app")) @@ ("scripts" :> Str("none")))),
      to_string_pretty(Obj("devDependencies" :>
                               Obj("@biomejs/biome" :> Str("1.9.4")))),
      Text("not json") }

InitialSettings ==
    { NoFile,
      to_string_pretty(EmptyObject),
      to_string_pretty(Obj("editor.fontSize" :> Str("14"))),
      to_string_pretty(Obj(("editor.defaultFormatter" :> Str("esbenp.prettier-vscode"))
                           @@ ("editor.codeActionsOnSave" :>
                                   Obj("source.fixAll" :> Str("explicit"))))) }

InitialConfigs == { NoFile, Text("user config") }

ProgInit ==
    /\ \E m \in InitialManifests, s \in InitialSettings, c \in InitialConfigs :
          /\ fs = [p \in Paths |->
                      CASE p = PackageJsonPath -> m
                        [] p = SettingsPath -> s
                        [] p \in {"biome.json", "tool.json"} -> c
                        [] OTHER -> NoFile]
          /\ dirs = IF s = NoFile THEN {} ELSE {".vscode"}
    /\ call = NoCall
    /\ pc = "idle"
    /\ idx = 1
    /\ out = Pending
    /\ steps = <<>>
    /\ baseline = Null
    /\ working = Null
    /\ cmds = <<>>
    /\ pre = [fs |-> [p \in Paths |-> NoFile], dirs |-> {}]
    /\ log = <<>>
    /\ external = NoFile

\* an operation is called: the previous one, if any, goes to the log
Begin(c, first) ==
    /\ pc \in {"idle", "done"}
    /\ Runs < MaxRuns
    /\ call' = c
    /\ pc' = first
    /\ steps' = <<first>>
    /\ idx' = 1
    /\ out' = Pending
    /\ baseline' = Null
    /\ working' = Null
    /\ cmds' = <<>>
    /\ pre' = W
    /\ log' = IF pc = "done" THEN Append(log, Summary) ELSE log
    /\ external' = NoFile
    /\ UNCHANGED <<fs, dirs>>

\* the operation ends with this result
Finish(result) ==
    /\ pc' = "done"
    /\ out' = result
    /\ UNCHANGED <<steps, idx>>

\* the step succeeded: on to the next step of install / remove, or Ok(())
Proceed ==
    LET order == StepsOf(call.op, call.prov) IN
    IF Len(steps) < Len(order)
    THEN /\ pc' = order[Len(steps) + 1]
         /\ steps' = Append(steps, order[Len(steps) + 1])
         /\ idx' = 1
         /\ out' = out
    ELSE /\ pc' = "done"
         /\ out' = Ok
         /\ idx' = 1
         /\ UNCHANGED steps

\* Faulty variant, for testing the properties: a failed step puts the files back as the operation found them
StepRollingBack(r) ==
    IF r.out.kind = "ok"
    THEN Leave(r.w) /\ Proceed
    ELSE Leave(pre) /\ Finish(r.out)

\* a step that is one call: `?` on its result
Step(r) ==
    /\ Leave(r.w)
    /\ IF r.out.kind = "ok" THEN Proceed ELSE Finish(r.out)

\* one pass of a step that loops over a list of n entries
Pass(r, n) ==
    /\ Leave(r.w)
    /\ IF r.out.kind # "ok" THEN Finish(r.out)
       ELSE IF idx < n THEN idx' = idx + 1 /\ UNCHANGED <<pc, out, steps>>
       ELSE Proceed

\* install(), remove() of a provider
StartLifecycle ==
    \E op \in {"install", "remove"}, id \in ProviderIds :
        /\ Begin(Call(op, id, "", "", "", FALSE, NoMutation), StepsOf(op, id)[1])
        /\ UNCHANGED pureVars

\* AmarisInstaller::run_command: the command line of one pass
CommandLine(op, p, package) ==
    [cmd |-> p.package_manager,
     args |-> IF op = "install" THEN <<"install", "--dev", package>>
              ELSE IF p.kind = "dynamic" THEN <<"remove", package>>
              ELSE <<"remove", "--dev", package>>]

\* AmarisInstaller::install / remove (BiomeProvider::install_packages /
\* remove_packages): one pass of the loop; the command succeeds or fails
RunPackageCommand ==
    /\ pc \in {"install_packages", "remove_packages"}
    /\ LET p == Descriptor(call.prov) IN
       IF Len(p.packages) = 0
       THEN /\ Proceed
            /\ UNCHANGED <<fs, dirs, cmds>>
       ELSE \E success \in BOOLEAN :
              /\ cmds' = Append(cmds, [line |-> CommandLine(call.op, p, p.packages[idx]),
                                       success |-> success])
              /\ Pass(Return(IF success THEN Ok ELSE Err("DependencyError"), W),
                      Len(p.packages))
    /\ UNCHANGED <<call, baseline, working, pre, log, external>>
    /\ UNCHANGED pureVars

\* AmarisConfigurationHandler::write_configs: one pass of the loop
WriteConfigs ==
    /\ pc = "write_configs"
    /\ LET p == Descriptor(call.prov) IN
       IF Len(p.configuration) = 0
       THEN Proceed /\ UNCHANGED <<fs, dirs>>
       ELSE \E io \in IoFaults :
              Pass(write_config(W, p.name, p.configuration[idx], io),
                   Len(p.configuration))
    /\ UNCHANGED <<call, baseline, working, cmds, pre, log, external>>
    /\ UNCHANGED pureVars

\* AmarisConfigurationHandler::remove_configs: one pass of the loop
RemoveConfigs ==
    /\ pc = "remove_configs"
    /\ LET p == Descriptor(call.prov) IN
       IF Len(p.configuration) = 0
       THEN Proceed /\ UNCHANGED <<fs, dirs>>
       ELSE \E io \in IoFaults :
              Pass(remove_config(W, p.configuration[idx], io), Len(p.configuration))
    /\ UNCHANGED <<call, baseline, working, cmds, pre, log, external>>
    /\ UNCHANGED pureVars

\* BiomeProvider::write_configuration
WriteConfiguration ==
    /\ pc = "write_configuration"
    /\ LET p == Descriptor(call.prov) IN
       \E io \in IoFaults :
          Pass(ConfiguratorWriteFile(W, p.configuration[idx].file_location,
                                     to_string_pretty(biome_config), io),
               Len(p.configuration))
    /\ UNCHANGED <<call, baseline, working, cmds, pre, log, external>>
    /\ UNCHANGED pureVars

\* BiomeProvider::remove_configuration
RemoveConfiguration ==
    /\ pc = "remove_configuration"
    /\ LET p == Descriptor(call.prov) IN
       \E io \in IoFaults :
          Pass(remove_file(W, p.configuration[idx].file_location, io),
               Len(p.configuration))
    /\ UNCHANGED <<call, baseline, working, cmds, pre, log, external>>
    /\ UNCHANGED pureVars

\* AmarisPackageJsonHandler::write_scripts, BiomeProvider::update_package_json
WriteScripts ==
    /\ pc \in {"write_scripts", "update_package_json"}
    /\ \E io \in IoFaults : Step(write_scripts(W, Descriptor(call.prov).scripts, io))
    /\ UNCHANGED <<call, baseline, working, cmds, pre, log, external>>
    /\ UNCHANGED pureVars

\* AmarisPackageJsonHandler::remove_scripts, BiomeProvider::remove_package_json
RemoveScripts ==
    /\ pc \in {"remove_scripts", "remove_package_json"}
    /\ \E io \in IoFaults : Step(remove_scripts(W, Descriptor(call.prov).scripts, io))
    /\ UNCHANGED <<call, baseline, working, cmds, pre, log, external>>
    /\ UNCHANGED pureVars

\* BiomeProvider::update_vscode_settings
UpdateVscodeSettings ==
    /\ pc = "update_vscode_settings"
    /\ \E io \in IoFaults :
          Step(update_vscode_settings(W, Descriptor(call.prov).settings, io))
    /\ UNCHANGED <<call, baseline, working, cmds, pre, log, external>>
    /\ UNCHANGED pureVars

\* BiomeProvider::remove_vscode_settings
RemoveVscodeSettings ==
    /\ pc = "remove_vscode_settings"
    /\ \E io \in IoFaults :
          Step(remove_vscode_settings(W, Descriptor(call.prov).settings, io))
    /\ UNCHANGED <<call, baseline, working, cmds, pre, log, external>>
    /\ UNCHANGED pureVars

\* check_prerequisites() of a provider
StartCheckPrerequisites ==
    \E id \in PrerequisiteProviders :
        /\ Begin(Call("check_prerequisites", id, "", "", "", FALSE, NoMutation),
                 "check_prerequisites")
        /\ UNCHANGED pureVars

\* check_prerequisites: which() looks the package manager up (recorded with
\* the commands), then the manifest is looked for
CheckPrerequisites ==
    /\ pc = "check_prerequisites"
    /\ \E found \in BOOLEAN, io \in IoFaults :
          /\ cmds' = <<[line |-> [cmd |-> "which",
                                  args |-> <<PackageManagerOf(call.prov)>>],
                        success |-> found]>>
          /\ Leave(W)
          /\ Finish(check_prerequisites(W, call.prov, found, io))
    /\ UNCHANGED <<call, baseline, working, pre, log, external>>
    /\ UNCHANGED pureVars

\* read() of a document handler, called on its own
StartRead ==
    \E handler \in {"package_json", "vscode"} :
        /\ Begin(Call("read", "", handler, "", "", FALSE, NoMutation), "read")
        /\ UNCHANGED pureVars

Read ==
    /\ pc = "read"
    /\ \E io \in IoFaults :
          LET r == HandlerRead(call.handler, W, io) IN
          /\ Leave(r.w)
          /\ Finish(r.out)
    /\ UNCHANGED <<call, baseline, working, cmds, pre, log, external>>
    /\ UNCHANGED pureVars

\* update(closure) of a document handler
StartUpdate ==
    \E handler \in {"package_json", "vscode"}, m \in Mutations :
        /\ Begin(Call("update", "", handler, "", "", FALSE, m), "update_read")
        /\ UNCHANGED pureVars

\* add_script(name, content, append)
StartAddScript ==
    \E name \in {"lint", "format"}, append \in BOOLEAN :
        /\ Begin(Call("add_script", "", "package_json", name, "new-lint", append,
                      NoMutation), "update_read")
        /\ UNCHANGED pureVars

\* remove_script(name)
StartRemoveScript ==
    \E name \in {"lint", "format"} :
        /\ Begin(Call("remove_script", "", "package_json", name, "", FALSE,
                      NoMutation), "update_read")
        /\ UNCHANGED pureVars

\* Faulty variant, for testing the properties: update goes on with an empty document when the read fails
UpdateReadIgnoringFailure ==
    /\ pc = "update_read"
    /\ \E io \in IoFaults :
          LET r == HandlerRead(call.handler, W, io) IN
          /\ Leave(r.w)
          /\ baseline' = IF r.out.kind = "ok" THEN r.out.val ELSE EmptyObject
          /\ pc' = "update_write"
          /\ steps' = Append(steps, "update_write")
          /\ UNCHANGED <<out, idx>>
    /\ UNCHANGED <<call, working, cmds, pre, log, external>>
    /\ UNCHANGED pureVars

\* update: the read and the clone
UpdateRead ==
    /\ pc = "update_read"
    /\ \E io \in IoFaults :
          LET r == HandlerRead(call.handler, W, io) IN
          /\ Leave(r.w)
          /\ IF r.out.kind = "ok"
             THEN /\ baseline' = r.out.val
                  /\ pc' = "update_write"
                  /\ steps' = Append(steps, "update_write")
                  /\ UNCHANGED <<out, idx>>
             ELSE /\ Finish(r.out)
                  /\ UNCHANGED baseline
    /\ UNCHANGED <<call, working, cmds, pre, log, external>>
    /\ UNCHANGED pureVars

\* what another process may leave in a handler's file: a document with an
\* edit of its own
ExternalDocuments(handler) ==
    { to_string_pretty(IF handler = "package_json"
                       THEN Obj("name" :> Str("external edit"))
                       ELSE Obj("editor.fontSize" :> Str("external edit"))) }

\* update holds no lock between self.read() and self.write(): another
\* process replaces the file, with something else than it holds, after
\* update has read it
ExternalWrite ==
    /\ pc = "update_write"
    /\ external = NoFile
    /\ \E content \in ExternalDocuments(call.handler) :
          /\ content # fs[HandlerPath(call.handler)]
          /\ fs' = [fs EXCEPT ![HandlerPath(call.handler)] = content]
          /\ external' = content
    /\ UNCHANGED <<dirs, call, pc, idx, out, steps, baseline, working, cmds, pre, log>>
    /\ UNCHANGED pureVars

\* the closure update was called with
Closure(c, doc) ==
    IF c.op = "add_script" THEN add_script_closure(doc, c.name, c.content, c.append)
    ELSE IF c.op = "remove_script" THEN remove_script_closure(doc, c.name)
    ELSE Mutate(c.mutate, doc)

\* Faulty variant, for testing the properties: update merges the closure's result into the document the file holds
\* at the time of the write
UpdateWriteOntoCurrent ==
    /\ pc = "update_write"
    /\ LET settings == Closure(call, baseline)
           held == fs[HandlerPath(call.handler)]
           current == IF held.kind \in {"pretty", "compact"} THEN held.doc ELSE baseline
       IN
       /\ working' = settings
       /\ IF settings = Poison
          THEN /\ Finish(Panic)
               /\ UNCHANGED <<fs, dirs>>
          ELSE \E io \in IoFaults :
                  LET r == HandlerWrite(call.handler, W,
                                        UpdatedDocument(current, settings), io)
                  IN  /\ Leave(r.w)
                      /\ Finish(r.out)
    /\ UNCHANGED <<call, baseline, cmds, pre, log, external>>
    /\ UNCHANGED pureVars

\* update: the closure, the merge into the clone, the write
UpdateWrite ==
    /\ pc = "update_write"
    /\ LET settings == Closure(call, baseline) IN
       /\ working' = settings
       /\ IF settings = Poison
          THEN /\ Finish(Panic)
               /\ UNCHANGED <<fs, dirs>>
          ELSE \E io \in IoFaults :
                  LET r == HandlerWrite(call.handler, W,
                                        UpdatedDocument(baseline, settings), io)
                  IN  /\ Leave(r.w)
                      /\ Finish(r.out)
    /\ UNCHANGED <<call, baseline, cmds, pre, log, external>>
    /\ UNCHANGED pureVars

ProgNext ==
    \/ StartLifecycle
    \/ RunPackageCommand
    \/ WriteConfigs
    \/ RemoveConfigs
    \/ WriteConfiguration
    \/ RemoveConfiguration
    \/ WriteScripts
    \/ RemoveScripts
    \/ UpdateVscodeSettings
    \/ RemoveVscodeSettings
    \/ StartCheckPrerequisites
    \/ CheckPrerequisites
    \/ StartRead
    \/ Read
    \/ StartUpdate
    \/ StartAddScript
    \/ StartRemoveScript
    \/ UpdateRead
    \/ ExternalWrite
    \/ UpdateWrite

\* the merge variables, while the program runs
MergeIdle ==
    target = Null /\ source = Null /\ merged = <<>> /\ second = Null /\ results = <<>>

PureIdle == MergeIdle /\ StartIdle

\* the program variables, while the merge alone is run
ProgIdle ==
    /\ fs = [p \in Paths |-> NoFile]
    /\ dirs = {}
    /\ call = NoCall
    /\ pc = "idle"
    /\ idx = 1
    /\ out = Pending
    /\ steps = <<>>
    /\ baseline = Null
    /\ working = Null
    /\ cmds = <<>>
    /\ pre = [fs |-> [p \in Paths |-> NoFile], dirs |-> {}]
    /\ log = <<>>
    /\ external = NoFile

Init == ProgInit /\ PureIdle

Next == ProgNext

Spec == Init /\ [][Next]_vars

(***************************************************************************)
(* Specification of the merge alone: a document and a fragment are drawn,  *)
(* and the fragment is merged into the document again and again.           *)
(***************************************************************************)
MergeInit ==
    /\ target \in JsonValues(MaxDepth)
    /\ source \in JsonValues(MaxDepth)
    /\ merged = <<>>
    /\ second = Null
    /\ results = <<>>
    /\ ProgIdle
    /\ StartIdle

Current == IF merged = <<>> THEN target ELSE merged[Len(merged)]

ApplyMerge ==
    /\ Len(merged) < MaxMerges
    /\ merged' = Append(merged, merge_json_values(Current, source))
    /\ UNCHANGED <<target, source, second, results>>
    /\ UNCHANGED progVars
    /\ UNCHANGED startVars

MergeNext == ApplyMerge

SpecMerge == MergeInit /\ [][MergeNext]_vars


(***************************************************************************)
(* Specification of the start of the program, over every provider          *)
(* directory of up to MaxEntries dir_entries.                                  *)
(***************************************************************************)
StartInit ==
    /\ dir_entries \in SeqsUpTo(DirEntries, MaxEntries)
    /\ providers = <<>>
    /\ registry = EmptyRegistry
    /\ boot = "load_all"
    /\ at = 1
    /\ load_result = Pending
    /\ MergeIdle
    /\ ProgIdle

StartNext == LoadEntry \/ Register

SpecStart == StartInit /\ [][StartNext]_vars

(***************************************************************************)
(* Specification of the merge of two fragments: a document and two         *)
(* fragments are drawn; the fragments are merged into the document in      *)
(* either order, and the first fragment is merged with its keys visited    *)
(* in some order.                                                          *)
(***************************************************************************)
CommuteInit ==
    /\ target \in CommuteValues(CommuteDepth)
    /\ source \in CommuteValues(CommuteDepth)
    /\ second \in SecondFragments
    /\ merged = <<>>
    /\ results = <<>>
    /\ ProgIdle
    /\ StartIdle

Result(order, keys, value) == [order |-> order, keys |-> keys, value |-> value]

MergeFirstThenSecond ==
    /\ Len(results) = 0
    /\ results' = Append(results,
                         Result("first, second", <<>>,
                                merge_json_values(merge_json_values(target, source),
                                                  second)))
    /\ UNCHANGED <<target, source, second, merged>>
    /\ UNCHANGED progVars
    /\ UNCHANGED startVars

MergeSecondThenFirst ==
    /\ Len(results) = 1
    /\ results' = Append(results,
                         Result("second, first", <<>>,
                                merge_json_values(merge_json_values(target, second),
                                                  source)))
    /\ UNCHANGED <<target, source, second, merged>>
    /\ UNCHANGED progVars
    /\ UNCHANGED startVars

\* the loop of merge_json_values with the Map yielding its keys in any order
MergeInSomeOrder ==
    /\ Len(results) = 2
    /\ is_object(target) /\ is_object(source)
    /\ \E keys \in Orders(Keys(source)) :
          results' = Append(results,
                            Result("first", keys, MergeEntries(target, source, keys)))
    /\ UNCHANGED <<target, source, second, merged>>
    /\ UNCHANGED progVars
    /\ UNCHANGED startVars

CommuteNext == MergeFirstThenSecond \/ MergeSecondThenFirst \/ MergeInSomeOrder

SpecCommute == CommuteInit /\ [][CommuteNext]_vars
(***************************************************************************)
(* C1: merging the same fragment into a document a second time (and any    *)
(* further time) gives the document the first merge gave:                  *)
(* merge(merge(D,F),F) = merge(D,F).                                       *)
(***************************************************************************)
MergeIdempotent ==
    \A i \in 2..Len(merged) : merged[i] = merged[1]

\* some key holds an object on both sides
SharesObjectKey(d, f) ==
    /\ is_object(d) /\ is_object(f)
    /\ \E k \in Keys(d) \cap Keys(f) : is_object(d.o[k]) /\ is_object(f.o[k])

\* a second merge was done after a first one that changed the document by
\* merging into a nested object
MergeIdempotentWitness ==
    /\ Len(merged) = 2
    /\ SharesObjectKey(target, source)
    /\ merged[1] # target
    /\ merged[1] # source

(***************************************************************************)
(* C3: a key of the document that the fragment does not have keeps its     *)
(* value in the merge, at the top level and inside every nested object     *)
(* that document and fragment both have.                                   *)
(***************************************************************************)
RECURSIVE Preserved(_, _, _)
Preserved(d, f, r) ==
    /\ is_object(r)
    /\ \A k \in Keys(d) :
          /\ k \in Keys(r)
          /\ k \notin Keys(f) => r.o[k] = d.o[k]
          /\ (k \in Keys(f) /\ is_object(d.o[k]) /\ is_object(f.o[k]))
                => Preserved(d.o[k], f.o[k], r.o[k])

MergeKeepsOtherKeys ==
    (Len(merged) >= 1 /\ is_object(target) /\ is_object(source))
        => Preserved(target, source, merged[1])

\* a merge into a nested object that had a key of its own, next to a
\* top-level key of the document's own
MergeKeepsOtherKeysWitness ==
    /\ Len(merged) >= 1
    /\ is_object(target) /\ is_object(source)
    /\ Keys(target) \ Keys(source) # {}
    /\ \E k \in Keys(target) \cap Keys(source) :
          /\ is_object(target.o[k]) /\ is_object(source.o[k])
          /\ Keys(target.o[k]) \ Keys(source.o[k]) # {}
          /\ Keys(source.o[k]) \ Keys(target.o[k]) # {}

(***************************************************************************)
(* C4: where document and fragment hold different values at a shared key   *)
(* and the two are not both objects, the merge holds the fragment's value. *)
(***************************************************************************)
Conflict(d, f, k) ==
    /\ k \in Keys(d) \cap Keys(f)
    /\ d.o[k] # f.o[k]
    /\ ~(is_object(d.o[k]) /\ is_object(f.o[k]))

FragmentWinsConflict ==
    (Len(merged) >= 1 /\ is_object(target) /\ is_object(source))
        => \A k \in Keys(target) \cap Keys(source) :
              Conflict(target, source, k)
                  => (k \in Keys(merged[1]) /\ merged[1].o[k] = source.o[k])

\* a merge was done where a string meets another string, and where an
\* object meets a non-object
FragmentWinsConflictWitness ==
    /\ Len(merged) >= 1
    /\ is_object(target) /\ is_object(source)
    /\ \E k \in Keys(target) \cap Keys(source) :
          /\ Conflict(target, source, k)
          /\ target.o[k].t = "string" /\ source.o[k].t = "string"
    /\ \E k \in Keys(target) \cap Keys(source) :
          /\ Conflict(target, source, k)
          /\ is_object(target.o[k]) /\ ~is_object(source.o[k])


(***************************************************************************)
(* C25: two fragments that are objects and, wherever they have the same    *)
(* key, hold objects there that are so again, give the same document       *)
(* merged in either order; and the merge of a fragment is the same         *)
(* whatever the order its keys are visited in.                             *)
(***************************************************************************)
RECURSIVE NoCommonLeaf(_, _)
NoCommonLeaf(f1, f2) ==
    /\ is_object(f1) /\ is_object(f2)
    /\ \A k \in Keys(f1) \cap Keys(f2) : NoCommonLeaf(f1.o[k], f2.o[k])

MergeCommutes ==
    /\ (Len(results) >= 2 /\ NoCommonLeaf(source, second))
          => results[1].value = results[2].value
    /\ Len(results) >= 3 => results[3].value = merge_json_values(target, source)

\* both orders were merged for two fragments that share a key holding an
\* object on both sides, into a document that has a string there, and the
\* first fragment was merged with its two keys visited last first
MergeCommutesWitness ==
    /\ Len(results) = 3
    /\ NoCommonLeaf(source, second)
    /\ \E k \in Keys(source) \cap Keys(second) :
          /\ Keys(source.o[k]) # {} /\ Keys(second.o[k]) # {}
          /\ Has(target, k) /\ target.o[k] = Str("x")
    /\ Len(results[3].keys) = 2
    /\ results[3].keys # IterKeys(Keys(source))
    /\ results[1].value # source

(***************************************************************************)
(* C26: where the document and the fragment hold different arrays at the   *)
(* same key, at the top level or in nested objects both have, the merge    *)
(* holds exactly the fragment's array there; two arrays merged as such     *)
(* give the fragment's array.                                              *)
(***************************************************************************)
is_array(v) == v.t = "array"

RECURSIVE ArraysReplaced(_, _, _)
ArraysReplaced(d, f, r) ==
    IF is_array(d) /\ is_array(f) THEN r = f
    ELSE IF is_object(d) /\ is_object(f)
         THEN /\ is_object(r)
              /\ \A k \in Keys(d) \cap Keys(f) :
                    /\ k \in Keys(r)
                    /\ ArraysReplaced(d.o[k], f.o[k], r.o[k])
    ELSE TRUE

ArraysAtomic == Len(merged) >= 1 => ArraysReplaced(target, source, merged[1])

\* a merge where, inside an object both have, the document's array of two
\* elements met the fragment's array of one
ArraysAtomicWitness ==
    /\ Len(merged) >= 1
    /\ is_object(target) /\ is_object(source)
    /\ \E k \in Keys(target) \cap Keys(source) :
          /\ is_object(target.o[k]) /\ is_object(source.o[k])
          /\ \E j \in Keys(target.o[k]) \cap Keys(source.o[k]) :
                /\ target.o[k].o[j] = Arr(<<"y", "x">>)
                /\ source.o[k].o[j] = Arr(<<"x">>)
                /\ merged[1].o[k].o[j] = Arr(<<"x">>)
(***************************************************************************)
(* What the claims about the program speak of.                             *)
(***************************************************************************)
\* the document a handler's read gives for this content ({} for no file)
DocOf(content) ==
    IF content.kind = "none" THEN EmptyObject
    ELSE IF content.kind \in {"pretty", "compact"} THEN content.doc
    ELSE Poison

Done(op) == pc = "done" /\ call.op = op

\* remove of a provider has just returned Ok, right after install of the
\* same provider returned Ok
InstallThenRemove ==
    /\ Done("remove") /\ out = Ok
    /\ Len(log) >= 1
    /\ log[Len(log)].call.op = "install"
    /\ log[Len(log)].call.prov = call.prov
    /\ log[Len(log)].out = Ok

BeforeInstall == log[Len(log)].pre

(***************************************************************************)
(* C2: after install and then remove of a provider, editor settings that   *)
(* were an object with none of the keys of the provider's fragment are     *)
(* the document they were before the install.                              *)
(***************************************************************************)
SettingsRoundTrip ==
    InstallThenRemove =>
        LET D == DocOf(BeforeInstall.fs[SettingsPath])
            F == SettingsFragment(call.prov)
        IN  (is_object(D) /\ Keys(D) \cap Keys(F) = {})
                => DocOf(fs[SettingsPath]) = D

(***************************************************************************)
(* C5: read of package.json with no file there returns Ok({}); read of     *)
(* the editor settings with no file there returns Ok({}), and fails only   *)
(* where the .vscode directory could not be created (it is still missing   *)
(* then), with that call's FileWriteError.                                 *)
(***************************************************************************)
ReadMissingGivesEmpty ==
    (Done("read") /\ ~Exists(pre, HandlerPath(call.handler)))
        => IF call.handler = "package_json" \/ ".vscode" \in dirs
           THEN out = OkVal(EmptyObject)
           ELSE out = Err("FileWriteError")

\* both reads were done with no file there, the second gave {}
ReadMissingGivesEmptyWitness ==
    /\ Done("read") /\ call.handler = "vscode"
    /\ ~Exists(pre, SettingsPath)
    /\ out = OkVal(EmptyObject)
    /\ Len(log) = 1
    /\ log[1].call.op = "read" /\ log[1].call.handler = "package_json"
    /\ ~Exists(log[1].pre, PackageJsonPath)

(***************************************************************************)
(* C6: install does not change a file that was at the destination of one   *)
(* of the provider's configuration entries, does not return Ok then, and   *)
(* the placement of such an entry fails with AlreadyExists.                *)
(***************************************************************************)
PlacementSteps == {"write_configs", "write_configuration"}

PlacementRefusesOverwrite ==
    (call.op = "install" /\ pc # "idle") =>
        LET entries == Descriptor(call.prov).configuration IN
        /\ \A i \in 1..Len(entries) :
              Exists(pre, entries[i].file_location)
                  => /\ fs[entries[i].file_location] = pre.fs[entries[i].file_location]
                     /\ ~(pc = "done" /\ out = Ok)
        /\ ( /\ pc = "done"
             /\ steps[Len(steps)] \in PlacementSteps
             /\ Exists(pre, entries[idx].file_location) )
               => out = Err("AlreadyExists")

(***************************************************************************)
(* C7: after install and then remove of a provider on a manifest and       *)
(* settings that were empty, the manifest's scripts have none of the       *)
(* provider's script names and the settings none of the provider's keys.   *)
(***************************************************************************)
HasScript(doc, name) ==
    /\ Has(doc, "scripts")
    /\ is_object(doc.o["scripts"])
    /\ name \in Keys(doc.o["scripts"])

FromEmptyDocuments ==
    /\ DocOf(BeforeInstall.fs[PackageJsonPath]) = EmptyObject
    /\ DocOf(BeforeInstall.fs[SettingsPath]) = EmptyObject

SymmetricRemove ==
    (InstallThenRemove /\ FromEmptyDocuments) =>
        LET p == Descriptor(call.prov) IN
        /\ \A i \in 1..Len(p.scripts) :
              ~HasScript(DocOf(fs[PackageJsonPath]), p.scripts[i].name)
        /\ \A k \in Keys(SettingsFragment(call.prov)) :
              ~Has(DocOf(fs[SettingsPath]), k)

\* the provider of create_initial_config, which has scripts and settings,
\* was installed and removed on a manifest file and a settings file holding {}
SymmetricRemoveWitness ==
    /\ InstallThenRemove
    /\ call.prov = "dyn:biome"
    /\ BeforeInstall.fs[PackageJsonPath] = to_string_pretty(EmptyObject)
    /\ BeforeInstall.fs[SettingsPath] = to_string_pretty(EmptyObject)

(***************************************************************************)
(* C8: add_script leaves the saved manifest with scripts[name] = content   *)
(* where name was absent, "<old> && <content>" where it held the string    *)
(* old and append is set, content where it was present and append is not   *)
(* set; the other scripts and the other manifest keys are as before.       *)
(***************************************************************************)
ScriptsOf(doc) == IF Has(doc, "scripts") THEN doc.o["scripts"] ELSE EmptyObject

AddScriptExpected(old, c) ==
    IF c.name \in Keys(old) /\ c.append
    THEN Str(old.o[c.name].s \o " && " \o c.content)
    ELSE Str(c.content)

AddScriptResult ==
    LET before == DocOf(pre.fs[PackageJsonPath])
        old == ScriptsOf(before)
        after == DocOf(fs[PackageJsonPath])
    IN  ( /\ Done("add_script") /\ out.kind # "err"
          /\ is_object(before) /\ is_object(old)
          /\ \A k \in Keys(old) : old.o[k].t = "string" )
        => /\ HasScript(after, call.name)
           /\ after.o["scripts"].o[call.name] = AddScriptExpected(old, call)
           /\ \A k \in Keys(old) \ {call.name} :
                 HasScript(after, k) /\ after.o["scripts"].o[k] = old.o[k]
           /\ \A k \in Keys(before) \ {"scripts"} :
                 Has(after, k) /\ after.o[k] = before.o[k]

(***************************************************************************)
(* C9, as amended: after install returned Ok, scripts[name] is the command *)
(* of the last of the provider's entries with that name, and the package   *)
(* manager was run once per entry of the package list, in the list's       *)
(* order, with install --dev and that package, and for nothing else.       *)
(***************************************************************************)
LastScript(scripts, name) ==
    LET last == CHOOSE i \in 1..Len(scripts) :
                    /\ scripts[i].name = name
                    /\ \A j \in (i + 1)..Len(scripts) : scripts[j].name # name
    IN  scripts[last].script

InstallRuns(package) ==
    {i \in 1..Len(cmds) : cmds[i].line.args = <<"install", "--dev", package>>}

Untouched(k) ==
    /\ is_object(working)
    /\ k \in Keys(working)
    /\ working.o[k] = baseline.o[k]

UpdateSavesMergedBaseline ==
    (Done("update") /\ out = Ok) =>
        LET saved == fs[HandlerPath(call.handler)] IN
        /\ saved = to_string_pretty(merge_json_values(baseline, working))
        /\ \A k \in Keys(baseline) :
              Untouched(k) => (Has(saved.doc, k) /\ saved.doc.o[k] = baseline.o[k])

\* update returned Ok with a closure that removed one key of a document
\* that has another key, which the closure left alone
UpdateSavesMergedBaselineWitness ==
    /\ Done("update") /\ out = Ok
    /\ call.mutate.f = "remove"
    /\ call.mutate.key \in Keys(baseline)
    /\ \E k \in Keys(baseline) : Untouched(k)


(***************************************************************************)
(* C11: after remove_script(name) returned Ok on a manifest whose scripts  *)
(* table had the key name, the saved manifest's scripts table does not     *)
(* have the key name.                                                      *)
(***************************************************************************)
RemoveScriptDeletesKey ==
    ( /\ Done("remove_script") /\ out = Ok
      /\ HasScript(DocOf(pre.fs[PackageJsonPath]), call.name) )
        => ~HasScript(DocOf(fs[PackageJsonPath]), call.name)

\* the position of a step in the order of the running operation (0: not one)
StepIndex(step) ==
    LET order == StepsOf(call.op, call.prov) IN
    IF \E i \in 1..Len(order) : order[i] = step
    THEN CHOOSE i \in 1..Len(order) : order[i] = step
    ELSE 0

\* the running install or remove has completed this step with success
Passed(step) ==
    /\ StepIndex(step) > 0
    /\ \/ Len(steps) > StepIndex(step)
       \/ pc = "done" /\ out = Ok

\* the positions of the settings.json entries in a provider's configuration
SettingsEntries(p) ==
    {i \in 1..Len(p.configuration) : p.configuration[i].file_name = "settings.json"}

\* remove has dealt with the provider's editor settings: the pass of
\* remove_configs over a settings.json entry, or remove_vscode_settings
SettingsReverted ==
    /\ call.op = "remove"
    /\ IF Descriptor(call.prov).kind = "dynamic"
       THEN /\ SettingsEntries(Descriptor(call.prov)) # {}
            /\ \/ Passed("remove_configs")
               \/ /\ pc = "remove_configs"
                  /\ \A i \in SettingsEntries(Descriptor(call.prov)) : idx > i
       ELSE Passed("remove_vscode_settings")

(***************************************************************************)
(* C12: when remove has processed a settings.json configuration entry, the *)
(* editor-settings file is still there and every key of the settings that  *)
(* is not a key of the provider's fragment is in it with the value it had. *)
(***************************************************************************)
RemoveKeepsOtherSettings ==
    (SettingsReverted /\ Descriptor(call.prov).kind = "dynamic") =>
        LET D == DocOf(pre.fs[SettingsPath])
            F == SettingsFragment(call.prov)
            after == DocOf(fs[SettingsPath])
        IN  is_object(D) =>
                /\ Exists(W, SettingsPath)
                /\ \A k \in Keys(D) \ Keys(F) : Has(after, k) /\ after.o[k] = D.o[k]

(***************************************************************************)
(* C13: when remove has reverted a provider's settings, every key of the   *)
(* fragment whose value in the settings differed from the fragment's value *)
(* is still in the settings with that differing value.                     *)
(***************************************************************************)
RevertKeepsChangedSettings ==
    SettingsReverted =>
        LET D == DocOf(pre.fs[SettingsPath])
            F == SettingsFragment(call.prov)
            after == DocOf(fs[SettingsPath])
        IN  is_object(D) =>
                \A k \in Keys(D) \cap Keys(F) :
                    D.o[k] # F.o[k] => (Has(after, k) /\ after.o[k] = D.o[k])

(***************************************************************************)
(* C14: when a step of install or remove fails, the operation ends there   *)
(* (with an error of that step when the step returned one; a step may also *)
(* end the program by a panic), no further step is started, the files and  *)
(* the commands run so far stay as they are (after a failed write of the   *)
(* scripts every package command has succeeded and every configuration     *)
(* file is the one placed), and nothing is undone later.                   *)
(***************************************************************************)
Lifecycle == call.op \in {"install", "remove"}

\* the errors a step's own calls produce
StepErrors(step) ==
    CASE step \in {"install_packages", "remove_packages"} -> {"DependencyError"}
      [] step = "write_configs" -> {"FileReadError", "FileWriteError"}
      [] step = "write_configuration" -> {"AlreadyExists", "FileWriteError"}
      [] step \in {"remove_configs", "remove_configuration"} -> {"FileWriteError"}
      [] OTHER -> {"FileWriteError", "ValidationError"}

\* what a provider's install places at a configuration entry
Placed(p, entry) ==
    IF p.kind = "dynamic" THEN Template(p.name, entry.source_from)
    ELSE to_string_pretty(biome_config)

StepFails == Lifecycle /\ pc # "done" /\ pc' = "done" /\ out'.kind \in {"err", "panic"}

FailureKeeps ==
    /\ StepFails =>
          /\ fs' = fs
          /\ dirs \subseteq dirs'
          /\ steps' = steps
          /\ out'.kind = "err" => out'.err \in StepErrors(pc)
          /\ Len(cmds') >= Len(cmds)
          /\ \A i \in 1..Len(cmds) : cmds'[i] = cmds[i]
          /\ pc \in {"write_scripts", "update_package_json"} =>
                LET p == Descriptor(call.prov) IN
                /\ Len(cmds') = Len(p.packages)
                /\ \A i \in 1..Len(p.packages) :
                      /\ cmds'[i].success
                      /\ cmds'[i].line.args = <<"install", "--dev", p.packages[i]>>
                /\ \A i \in 1..Len(p.configuration) :
                      fs'[p.configuration[i].file_location]
                          = Placed(p, p.configuration[i])
    /\ (Lifecycle /\ pc = "done" /\ out.kind \in {"err", "panic"})
          => UNCHANGED <<fs, dirs>>

NoRollbackOnFailure == [][FailureKeeps]_vars

\* install of the provider of create_initial_config failed in write_scripts
\* after its package was installed and its biome.json was placed
NoRollbackOnFailureWitness ==
    /\ Done("install") /\ out.kind = "err"
    /\ call.prov = "dyn:biome"
    /\ steps[Len(steps)] = "write_scripts"
    /\ Len(cmds) = 1 /\ cmds[1].success
    /\ fs["biome.json"] # pre.fs["biome.json"]

(***************************************************************************)
(* C15: no operation ends in a panic: each one that has ended returned Ok  *)
(* or a ConfigError, whatever the manifest holds.                          *)
(***************************************************************************)
OperationsReturnTyped == pc = "done" => out.kind \in {"ok", "err"}

(***************************************************************************)
(* C16: the steps of install are started in the order package              *)
(* installation, configuration placement, script application, settings     *)
(* application (after the caller's prerequisite check), each after the     *)
(* one before it succeeded, and install returns Ok only after the scripts  *)
(* have been applied.                                                      *)
(***************************************************************************)
Rank(step) ==
    CASE step = "install_packages" -> 1
      [] step \in {"write_configs", "write_configuration"} -> 2
      [] step \in {"write_scripts", "update_package_json"} -> 3
      [] step = "update_vscode_settings" -> 4
      [] OTHER -> 0

ScriptsApplied == Passed("write_scripts") \/ Passed("update_package_json")

InstallStepOrder ==
    (call.op = "install" /\ pc # "idle") =>
        /\ \A i \in 1..(Len(steps) - 1) : Rank(steps[i]) < Rank(steps[i + 1])
        /\ (pc = "done" /\ out = Ok) => ScriptsApplied

(***************************************************************************)
(* C17: the steps of remove are started in the reverse of install's order: *)
(* settings reverted first, then scripts, then configuration files, and    *)
(* packages uninstalled last, so no package-manager command has been run   *)
(* while a file step is still to come.                                     *)
(***************************************************************************)
RemoveRank(step) ==
    CASE step = "remove_vscode_settings" -> 1
      [] step \in {"remove_scripts", "remove_package_json"} -> 2
      [] step \in {"remove_configs", "remove_configuration"} -> 3
      [] step = "remove_packages" -> 4
      [] OTHER -> 0

RemoveStepOrder ==
    (call.op = "remove" /\ pc # "idle") =>
        /\ \A i \in 1..(Len(steps) - 1) :
              RemoveRank(steps[i]) < RemoveRank(steps[i + 1])
        /\ cmds # <<>> =>
              \A s \in {"remove_scripts", "remove_package_json", "remove_configs",
                        "remove_configuration", "remove_vscode_settings"} :
                  StepIndex(s) > 0 => \E i \in 1..Len(steps) : steps[i] = s

(***************************************************************************)
(* C18: remove deletes no file but those at the file_location of the       *)
(* provider's configuration entries (the editor-settings entry aside),     *)
(* and after install and then remove of a provider no file is left at      *)
(* the file_location of any of those entries.                              *)
(***************************************************************************)
PlacedPaths(p) ==
    {p.configuration[i].file_location :
        i \in {j \in 1..Len(p.configuration) :
                  p.configuration[j].file_name # "settings.json"}}

RemoveDeletesWherePlaced ==
    /\ (call.op = "remove" /\ pc # "idle") =>
          \A path \in Paths :
              (Exists(pre, path) /\ ~Exists(W, path))
                  => path \in PlacedPaths(Descriptor(call.prov))
    /\ InstallThenRemove =>
          \A path \in PlacedPaths(Descriptor(call.prov)) : ~Exists(W, path)

\* install has applied the provider's editor settings: the pass of
\* write_configs over a settings.json entry, or update_vscode_settings
SettingsApplied ==
    /\ call.op = "install"
    /\ IF Descriptor(call.prov).kind = "dynamic"
       THEN /\ SettingsEntries(Descriptor(call.prov)) # {}
            /\ \/ Passed("write_configs")
               \/ /\ pc = "write_configs"
                  /\ \A i \in SettingsEntries(Descriptor(call.prov)) : idx > i
       ELSE Passed("update_vscode_settings")

(***************************************************************************)
(* C19: once install has applied the provider's settings, the editor       *)
(* settings are merge(settings before install, the provider's fragment).   *)
(***************************************************************************)
InstallMergesSettings ==
    SettingsApplied =>
        LET D == DocOf(pre.fs[SettingsPath])
            F == SettingsFragment(call.prov)
        IN  is_object(D) => DocOf(fs[SettingsPath]) = merge_json_values(D, F)

(***************************************************************************)
(* C20, as claimed: a script mutation performed right after the same       *)
(* mutation succeeded leaves the manifest as the first one left it:        *)
(* add_script with the same name, content and append flag (set or not),    *)
(* and write_scripts with the same entries (the scripts step of the same   *)
(* provider's install).                                                    *)
(***************************************************************************)
RepeatedCall ==
    /\ Len(log) >= 1
    /\ log[Len(log)].call = call
    /\ log[Len(log)].out = Ok

ScriptMutationIdempotent ==
    ( /\ RepeatedCall
      /\ \/ Done("add_script") /\ out = Ok
         \/ call.op = "install" /\ ScriptsApplied )
        => DocOf(fs[PackageJsonPath]) = DocOf(pre.fs[PackageJsonPath])

(***************************************************************************)
(* C20, as amended: write_scripts with the same entries and add_script     *)
(* with append not set, performed right after the same mutation            *)
(* succeeded, leave the manifest as the first one left it; add_script      *)
(* with append set appends " && " and the content once more.               *)
(***************************************************************************)
ScriptMutationIdempotentUnlessAppend ==
    RepeatedCall =>
        LET before == DocOf(pre.fs[PackageJsonPath])
            after == DocOf(fs[PackageJsonPath])
        IN  /\ ( \/ Done("add_script") /\ out = Ok /\ ~call.append
                 \/ call.op = "install" /\ ScriptsApplied )
                  => after = before
            /\ (Done("add_script") /\ out = Ok /\ call.append)
                  => /\ HasScript(before, call.name)
                     /\ HasScript(after, call.name)
                     /\ after.o["scripts"].o[call.name]
                           = Str(before.o["scripts"].o[call.name].s
                                 \o " && " \o call.content)

\* add_script that overwrites has succeeded twice in a row on a manifest
\* that had the script
ScriptMutationIdempotentUnlessAppendWitness ==
    /\ RepeatedCall
    /\ Done("add_script") /\ out = Ok /\ ~call.append
    /\ HasScript(DocOf(log[Len(log)].pre.fs[PackageJsonPath]), call.name)

(***************************************************************************)
(* C21: when update's read fails, or the file does not hold JSON, update   *)
(* returns an error (ValidationError where the text was read and did not   *)
(* parse), the closure has not run and every file is as it was.            *)
(***************************************************************************)
UpdateCall == call.op \in {"update", "add_script", "remove_script"}

UpdateFailsClean ==
    (UpdateCall /\ pc = "done") =>
        /\ steps = <<"update_read">> =>
              /\ out.kind = "err"
              /\ working = Null
              /\ fs = pre.fs
        /\ pre.fs[HandlerPath(call.handler)].kind = "text" =>
              /\ out \in {Err("ValidationError"), Err("FileWriteError")}
              /\ steps = <<"update_read">>
        /\ out = Err("ValidationError") => steps = <<"update_read">>

\* update of a manifest that is not JSON returned ValidationError
UpdateFailsCleanWitness ==
    /\ Done("update") /\ call.handler = "package_json"
    /\ pre.fs[PackageJsonPath] = Text("not json")
    /\ out = Err("ValidationError")

\* which() found the package manager in the check that has just ended
Found == Len(cmds) = 1 /\ cmds[1].line.cmd = "which" /\ cmds[1].success

(***************************************************************************)
(* C22: check_prerequisites of PrettierEslintProvider, with the package    *)
(* manager found and a manifest that declares one of Biome's packages in   *)
(* one of its dependency tables, does not return Ok: it fails with         *)
(* ConflictError (or with the error of reading the manifest).              *)
(***************************************************************************)
DeclaresAny(package_json, names) ==
    \E i \in 1..Len(names) : names[i] \in get_package_dependencies(package_json)

ConflictRefused ==
    ( /\ Done("check_prerequisites") /\ call.prov = PrettierEslintProvider
      /\ Found
      /\ pre.fs[PackageJsonPath].kind \in {"pretty", "compact"}
      /\ DeclaresAny(DocOf(pre.fs[PackageJsonPath]), BiomeProvider.packages) )
        => out \in {Err("ConflictError"), Err("FileWriteError"), Err("ValidationError")}

(***************************************************************************)
(* C23: check_prerequisites returns MissingPrerequisite when the package   *)
(* manager is not found or there is no package.json, returns Ok when both  *)
(* are there and the provider has no conflict check, and changes no file.  *)
(***************************************************************************)
PrerequisitesChecked ==
    Done("check_prerequisites") =>
        /\ fs = pre.fs /\ dirs = pre.dirs
        /\ (~Found \/ ~Exists(pre, PackageJsonPath))
              => out = Err("MissingPrerequisite")
        /\ (Found /\ Exists(pre, PackageJsonPath) /\ call.prov # PrettierEslintProvider)
              => out = Ok

\* the check of a descriptor-driven provider returned Ok, after an earlier
\* check on the same project failed with MissingPrerequisite
PrerequisitesCheckedWitness ==
    /\ Done("check_prerequisites") /\ call.prov = "dyn:biome"
    /\ Found /\ Exists(pre, PackageJsonPath) /\ out = Ok
    /\ Len(log) = 1
    /\ log[1].call.op = "check_prerequisites"
    /\ log[1].out = Err("MissingPrerequisite")

(***************************************************************************)
(* C24: after the register calls made so far, get_provider(n) is the       *)
(* provider built from the last descriptor registered under the name n,    *)
(* None for a name not registered, and available_configs has exactly one   *)
(* entry for each name registered.                                         *)
(***************************************************************************)
Registered ==
    IF boot = "register" THEN SubSeq(providers, 1, at - 1)
    ELSE IF boot = "ready" THEN providers
    ELSE <<>>

ProviderNames == {"biome", "fmt", "lint"}

LastRegistered(R, n) ==
    R[CHOOSE i \in 1..Len(R) :
          /\ R[i].name = n
          /\ \A j \in (i + 1)..Len(R) : R[j].name # n]

RegistryLastWins ==
    LET R == Registered IN
    /\ \A n \in ProviderNames :
          get_provider(registry, n) =
              IF \E i \in 1..Len(R) : R[i].name = n
              THEN DynamicProviderImpl(LastRegistered(R, n))
              ELSE None
    /\ \A n \in {R[i].name : i \in 1..Len(R)} :
          Cardinality({c \in available_configs(registry) : c[2] = n}) = 1
    /\ Cardinality(available_configs(registry))
           = Cardinality({R[i].name : i \in 1..Len(R)})

\* three descriptors were registered, the first and the last named biome
RegistryLastWinsWitness ==
    /\ boot = "ready"
    /\ Len(providers) = 3
    /\ providers[1] = biome_provider
    /\ providers[2] = fmt_provider
    /\ providers[3] = biome_provider_npm
    /\ get_provider(registry, "biome").provider = biome_provider_npm

(***************************************************************************)
(* C28: load_all returns Ok only when every regular file with extension    *)
(* json in the directory was read and parsed, and then returns their       *)
(* descriptors in the directory's order, files with another extension and  *)
(* directories left out; with one such file that cannot be read or parsed  *)
(* it returns an error and no provider, and nothing is ever registered.    *)
(***************************************************************************)
BadFile(entry) == IsDescriptorFile(entry) /\ entry.content.kind # "descriptor"

RECURSIVE DescriptorsIn(_)
DescriptorsIn(es) ==
    IF es = <<>> THEN <<>>
    ELSE IF IsDescriptorFile(Head(es))
         THEN <<Head(es).content.provider>> \o DescriptorsIn(Tail(es))
    ELSE DescriptorsIn(Tail(es))

SomeBadFile == \E i \in 1..Len(dir_entries) : BadFile(dir_entries[i])

LoadAllOrNothing ==
    /\ boot \in {"register", "ready"} =>
          /\ load_result = Ok
          /\ ~SomeBadFile
          /\ providers = DescriptorsIn(dir_entries)
    /\ boot = "failed" =>
          /\ load_result = Err("FileWriteError")
          /\ providers = <<>>
          /\ SomeBadFile
    /\ SomeBadFile => (registry = EmptyRegistry /\ boot \in {"load_all", "failed"})

\* load_all failed at the third entry after it had read a valid descriptor
\* and passed over an entry that is no json file
LoadAllOrNothingWitness ==
    /\ boot = "failed"
    /\ at = 3
    /\ dir_entries[1].content.kind = "descriptor" /\ IsDescriptorFile(dir_entries[1])
    /\ ~IsDescriptorFile(dir_entries[2])
    /\ BadFile(dir_entries[3])

(***************************************************************************)
(* C27: when another process replaced the handler's file between update's  *)
(* read and its write, update goes on as if nothing had happened: it fails *)
(* only where its own write fails or its closure panics, and when it       *)
(* returns Ok the saved file is merge(document read, closure(document      *)
(* read)), in which nothing of what the other process wrote is left.       *)
(***************************************************************************)
Overwritten == external # NoFile

\* a key the other process set to a value the document read did not have
\* there, and the closure did not set to that value either
ExternalChange(k) ==
    /\ external.kind = "pretty"
    /\ k \in Keys(external.doc)
    /\ ~(Has(baseline, k) /\ baseline.o[k] = external.doc.o[k])
    /\ ~(is_object(working) /\ Has(working, k) /\ working.o[k] = external.doc.o[k])

ExternalWriteLost ==
    (UpdateCall /\ pc = "done" /\ Overwritten) =>
        LET saved == fs[HandlerPath(call.handler)] IN
        /\ out \in {Ok, Panic, Err("FileWriteError")}
        /\ out = Panic => working = Poison
        /\ out # Ok => saved = external
        /\ out = Ok =>
              /\ saved = to_string_pretty(merge_json_values(baseline, working))
              /\ external.kind = "pretty" =>
                    \A k \in Keys(external.doc) :
                        ExternalChange(k) =>
                            ~(Has(saved.doc, k) /\ saved.doc.o[k] = external.doc.o[k])

\* update returned Ok although another process had put an edit of its own
\* into a file that update had read with two keys
ExternalWriteLostWitness ==
    /\ Done("update") /\ out = Ok
    /\ external.kind = "pretty"
    /\ \E k \in Keys(external.doc) : ExternalChange(k)
    /\ Cardinality(Keys(baseline)) >= 2
====
